---- MODULE Spec2Model ----
(***************************************************************************)
(* Model of dpvo/projective_ops.py: backprojection, relative transform,    *)
(* projection, Jacobians, dense flow and the flow-magnitude heuristic.     *)
(*                                                                         *)
(* Numbers.  The code computes in floating point; the model computes in    *)
(* exact rational arithmetic (no rounding), so that equalities the spec    *)
(* states "up to tolerance" are exact here.  Every number carries, beside  *)
(* its value, a first-order part (a dual number a + b*eps with eps^2 = 0): *)
(* evaluating an operator on an input x + v*eps yields the directional     *)
(* derivative of the operator along v in the first-order part, which is    *)
(* the limit of the finite-difference quotient.  Ordinary values have a    *)
(* first-order part of 0.                                                  *)
(*                                                                         *)
(* Evaluation order.  The statements of a function run in order, each on   *)
(* the values the earlier ones produced.  An operator that stands for a    *)
(* group of statements takes the earlier values as parameters and computes *)
(* them first (InOrder).                                                   *)
(***************************************************************************)
EXTENDS Integers, Sequences, FiniteSets, TLC

\* result, after the values of steps (a tuple) have been computed, left to right
InOrder(steps, result) == IF steps = steps THEN result ELSE result

(* ------------------- numbers: value + first order ---------------------- *)

RECURSIVE Gcd(_, _)
Gcd(ga, gb) == IF gb = 0 THEN ga ELSE Gcd(gb, ga % gb)

Abs(n) == IF n < 0 THEN -n ELSE n

\* the number (vre + vdu*eps) / vden, vden # 0, in lowest terms with a
\* positive denominator
Num(vre, vdu, vden) ==
    LET g == Gcd(Gcd(Abs(vre), Abs(vdu)), Abs(vden))
        s == IF vden < 0 THEN -1 ELSE 1
    IN  [re |-> (s * vre) \div g, du |-> (s * vdu) \div g, den |-> (s * vden) \div g]

\* the constant qn/qd
Q(qn, qd) == Num(qn, 0, qd)

Zero == Q(0, 1)
One == Q(1, 1)
Two == Q(2, 1)

\* the sum, over the least common denominator
Add(na, nb) ==
    LET g == Gcd(na.den, nb.den)
    IN  InOrder(<<na, nb>>,
            Num(na.re * (nb.den \div g) + nb.re * (na.den \div g),
                na.du * (nb.den \div g) + nb.du * (na.den \div g),
                (na.den \div g) * nb.den))

Neg(nc) == [re |-> -nc.re, du |-> -nc.du, den |-> nc.den]

Sub(nd, ne) == Add(nd, Neg(ne))

\* the product, after cancelling g1 between nf's numerators and ng's denominator
\* and g2 between ng's numerators and nf's denominator
Mul(nf, ng) ==
    LET g1 == Gcd(Gcd(Abs(nf.re), Abs(nf.du)), ng.den)
        g2 == Gcd(Gcd(Abs(ng.re), Abs(ng.du)), nf.den)
    IN  InOrder(<<nf, ng>>,
            Num((nf.re \div g1) * (ng.re \div g2),
                (nf.re \div g1) * (ng.du \div g2) + (nf.du \div g1) * (ng.re \div g2),
                (nf.den \div g2) * (ng.den \div g1)))

\* 1/(a + b eps) = 1/a - (b/a^2) eps
Inv(nh) == InOrder(<<nh>>, Num(nh.den * nh.re, -(nh.den * nh.du), nh.re * nh.re))

Div(ni, nj) == Mul(ni, Inv(nj))

\* comparisons look at the value
Lt(nm, nn) == nm.re * nn.den < nn.re * nm.den

Gt(nk, nl) == Lt(nl, nk)

Le(nr, ns) == ~Lt(ns, nr)

\* torch.Tensor.clamp(min=m)
ClampMin(no, np) == IF Lt(no, np) THEN np ELSE no

\* torch.Tensor.abs
NumAbs(nq) == IF nq.re < 0 THEN Neg(nq) ELSE nq

\* the first-order part of a number, as a number
DuOf(nt) == Num(nt.du, 0, nt.den)

\* the value of a number, without its first-order part
ReOf(nu) == Num(nu.re, 0, nu.den)

\* floor(sqrt(m)) of a natural number, by bisection on lo..hi
RECURSIVE ISqrtIn(_, _, _)
ISqrtIn(m, lo, hi) ==
    IF lo >= hi THEN lo
    ELSE IF ((lo + hi + 1) \div 2) * ((lo + hi + 1) \div 2) <= m
         THEN ISqrtIn(m, (lo + hi + 1) \div 2, hi)
         ELSE ISqrtIn(m, lo, ((lo + hi + 1) \div 2) - 1)

\* the resolution the square root is rounded (down) to: 1/SqrtScale
SqrtScale == 100

\* the largest value whose square root is taken
SqrtMax == 400

\* floor(sn/sd * SqrtScale^2) for sn >= 0, sd > 0, by long division
FloorScaled(sn, sd) ==
    (sn \div sd) * SqrtScale * SqrtScale
    + ((((sn % sd) * SqrtScale) \div sd) * SqrtScale)
    + (((((sn % sd) * SqrtScale) % sd) * SqrtScale) \div sd)

\* the square root of the value of x >= 0, rounded down to a multiple of 1/SqrtScale
Sqrt(x) == Q(ISqrtIn(FloorScaled(x.re, x.den), 0, SqrtMax * SqrtScale), SqrtScale)

(* ------------------------------ matrices ------------------------------- *)
(* A vector is a sequence of numbers, a matrix a sequence of rows.         *)

\* sf[lo] + ... + sf[hi], lo <= hi, summed by halves
RECURSIVE SumOver(_, _, _)
SumOver(sf, lo, hi) ==
    IF lo = hi THEN sf[lo]
    ELSE Add(SumOver(sf, lo, (lo + hi) \div 2), SumOver(sf, ((lo + hi) \div 2) + 1, hi))

Dot(da, db) == InOrder(<<da, db>>, SumOver([k \in 1..Len(da) |-> Mul(da[k], db[k])], 1, Len(da)))

MatVec(Mv, vv) == InOrder(<<Mv, vv>>, [i \in 1..Len(Mv) |-> Dot(Mv[i], vv)])

\* matrix product of Ma (r x m) and Mb (m x c)
MatMul(Ma, Mb) ==
    InOrder(<<Ma, Mb>>,
        [i \in 1..Len(Ma) |-> [j \in 1..Len(Mb[1]) |->
            SumOver([k \in 1..Len(Mb) |-> Mul(Ma[i][k], Mb[k][j])], 1, Len(Mb))]])

NegVec(vn) == [i \in 1..Len(vn) |-> Neg(vn[i])]

NegMat(Mn) == [i \in 1..Len(Mn) |-> NegVec(Mn[i])]

AddVec(va, vb) == [i \in 1..Len(va) |-> Add(va[i], vb[i])]

\* the cross-product matrix of a 3-vector: Hat(v) w = v x w
Hat(hv) ==
    [i \in 1..3 |-> [j \in 1..3 |->
        IF i = j THEN Zero
        ELSE IF j = (i % 3) + 1 THEN Neg(hv[6 - i - j])
        ELSE hv[6 - i - j]]]

(* ------------------- lietorch SE3 (consumed contract) ------------------ *)
(* An SE3 element is its 7 data entries <<tx, ty, tz, qx, qy, qz, qw>>:     *)
(* translation, then a unit quaternion.                                    *)

SE3Identity == <<Zero, Zero, Zero, Zero, Zero, Zero, One>>

TransOf(gt) == <<gt[1], gt[2], gt[3]>>

QuatOf(gq) == <<gq[4], gq[5], gq[6], gq[7]>>

MkSE3(mt, mq) == InOrder(<<mt, mq>>, <<mt[1], mt[2], mt[3], mq[1], mq[2], mq[3], mq[4]>>)

\* I (1 - 2 v.v) + 2 v v^T + 2 w Hat(v), with c = 1 - 2 v.v and E = Hat(v)
RotEntries(rv, rw, E, c) ==
    InOrder(<<rv, rw, E, c>>,
        [i \in 1..3 |-> [j \in 1..3 |->
            Add(IF i = j THEN c ELSE Zero,
                Mul(Two, Add(Mul(rv[i], rv[j]), Mul(rw, E[i][j]))))]])

\* rotation matrix of the unit quaternion <<x, y, z, w>>
RotQ(rq) ==
    RotEntries(<<rq[1], rq[2], rq[3]>>, rq[4], Hat(<<rq[1], rq[2], rq[3]>>),
               Sub(One, Mul(Two, Dot(<<rq[1], rq[2], rq[3]>>, <<rq[1], rq[2], rq[3]>>))))

\* rotation matrix of the SE3 element g
RotOf(g) == RotQ(QuatOf(g))

\* Hamilton product from the vector parts, the scalar parts and cr = av x bv
QuatFrom(av, aw, bv, bw, cr) ==
    InOrder(<<av, aw, bv, bw, cr>>,
        [i \in 1..4 |->
            IF i = 4 THEN Sub(Mul(aw, bw), Dot(av, bv))
            ELSE Add(Add(Mul(aw, bv[i]), Mul(bw, av[i])), cr[i])])

\* Hamilton product of the quaternions qa and qb, <<x, y, z, w>>
QuatMul(qa, qb) ==
    QuatFrom(<<qa[1], qa[2], qa[3]>>, qa[4], <<qb[1], qb[2], qb[3]>>, qb[4],
             MatVec(Hat(<<qa[1], qa[2], qa[3]>>), <<qb[1], qb[2], qb[3]>>))

\* compose(A, B) = A * B: translation R_A t_B + t_A, rotation q_A q_B
SE3Mul(A, B) ==
    InOrder(<<A, B>>,
        MkSE3(AddVec(MatVec(RotOf(A), TransOf(B)), TransOf(A)),
              QuatMul(QuatOf(A), QuatOf(B))))

\* the element with the (inverse) rotation qi that undoes the translation it
Undo(qi, it) == InOrder(<<qi, it>>, MkSE3(NegVec(MatVec(RotQ(qi), it)), qi))

\* inverse(A): rotation conj(q), translation -R^T t
SE3Inv(Gv) == Undo(<<Neg(Gv[4]), Neg(Gv[5]), Neg(Gv[6]), Gv[7]>>, TransOf(Gv))

\* the point <<R p + t W, W>> from Rp = R p
Moved(Rp, mg, pt) ==
    InOrder(<<Rp, mg, pt>>,
        [i \in 1..4 |-> IF i = 4 THEN pt[4] ELSE Add(Rp[i], Mul(mg[i], pt[4]))])

\* act(A, point) with R = the rotation matrix of A
ActBy(R, ag, pt) == Moved(MatVec(R, <<pt[1], pt[2], pt[3]>>), ag, pt)

\* act(A, point): homogeneous point <<X, Y, Z, W>> -> <<R p + t W, W>>
SE3Act(Gc, pt) == ActBy(RotOf(Gc), Gc, pt)

\* the action of A on every point of a grid, with R = the rotation matrix of A
ActGridBy(R, gg, pts) ==
    InOrder(<<R, gg, pts>>,
        [r \in 1..Len(pts) |-> [c \in 1..Len(pts[r]) |-> ActBy(R, gg, pts[r][c])]])

\* Gij[:, :, None, None] * X: the action on every point of a grid
ActGrid(Gg, pts) == ActGridBy(RotOf(Gg), Gg, pts)

\* the 4x4 matrix [[R, t], [0, 1]]
MatrixBy(R, mg) ==
    InOrder(<<R, mg>>,
        [i \in 1..4 |-> [j \in 1..4 |->
            IF i = 4 THEN (IF j = 4 THEN One ELSE Zero)
            ELSE IF j = 4 THEN mg[i]
            ELSE R[i][j]]])

\* matrix(A)
SE3Matrix(Gm) == MatrixBy(RotOf(Gm), Gm)

\* the 6x6 matrix [[R, T], [0, R]]
AdjBlocks(R, T) ==
    InOrder(<<R, T>>,
        [i \in 1..6 |-> [j \in 1..6 |->
            IF i <= 3 /\ j <= 3 THEN R[i][j]
            ELSE IF i <= 3 THEN T[i][j - 3]
            ELSE IF j <= 3 THEN Zero
            ELSE R[i - 3][j - 3]]])

\* the adjoint from the rotation matrix R and the translation t: T = Hat(t) R
AdjBy(R, at) == AdjBlocks(R, MatMul(Hat(at), R))

\* the 6x6 adjoint of A, tangent order (tau, phi)
SE3Adj(Gd) == AdjBy(RotOf(Gd), TransOf(Gd))

\* adjT(A, J): the 2x6 Jacobian J transported by the adjoint, J * Adj(A)
SE3AdjT(Gx, Jx) == MatMul(Jx, SE3Adj(Gx))

\* Exp of a tangent vector <<tau, phi>> that is purely first order (value 0):
\* translation tau, rotation quaternion <<phi/2, 1>>
SE3ExpSmall(xi) ==
    <<xi[1], xi[2], xi[3], Mul(Q(1, 2), xi[4]), Mul(Q(1, 2), xi[5]), Mul(Q(1, 2), xi[6]), One>>

(* ----------------------------- bounds ---------------------------------- *)

\* frames in the pose / intrinsics / depth-map buffers: indices 0..NumFrames-1
NumFrames == 2
\* patches in the patch buffer: indices 0..NumPatches-1
NumPatches == 2
\* a patch is PatchDim x PatchDim pixels
PatchDim == 2
\* a dense depth map is DenseHt x DenseWd pixels
DenseHt == 1
DenseWd == 2
\* in-place updates of the buffers by the external optimizer
MaxUpdates == 1

Frames == 0..(NumFrames - 1)
PatchIds == 0..(NumPatches - 1)

(* ------------------------- projective_ops.py --------------------------- *)

MIN_DEPTH == Q(2, 10)

\* the value a failed call produces: an exception, no result
Raise == [err |-> TRUE]

\* torch indexing of a buffer of n entries by an index tensor entry i:
\* 0..n-1 index directly, -n..-1 count from the end, anything else raises
IndexOk(i, n) == -n <= i /\ i < n

IndexAt(i, n) == IF i < 0 THEN i + n ELSE i

\* every entry of an index array is usable on a buffer of n entries
AllIndexOk(ix, n) == \A e \in 1..Len(ix) : IndexOk(ix[e], n)

\* broadcasting of the leading (edge) dimension: every length is 1 or E
MaxLen(ls) == CHOOSE m \in ls : \A l \in ls : l <= m

Broadcasts(ls) == \A l \in ls : l = 1 \/ l = MaxLen(ls)

\* entry e of an index array broadcast to E entries
At(arr, e) == IF Len(arr) = 1 THEN arr[1] ELSE arr[e]

\* a variant of iproj that stacks the patch depth as the Z coordinate:
\* X = stack([xn, yn, d, i])
iprojPointDepthZ(px, K) ==
    <<Div(Sub(px[1], K[3]), K[1]), Div(Sub(px[2], K[4]), K[2]), px[3], One>>

\* iproj, one pixel <<x, y, d>> of a patch: lines 21-28
iprojPoint(px, K) ==
    LET x == px[1]  y == px[2]  d == px[3]
        fx == K[1]  fy == K[2]  cx == K[3]  cy == K[4]
        i == One
        xn == Div(Sub(x, cx), fx)
        yn == Div(Sub(y, cy), fy)
    IN  <<xn, yn, i, d>>

\* iproj(patches, intrinsics): every pixel of one patch (a grid: rows of pixels)
iproj(pch, Kq) ==
    InOrder(<<pch, Kq>>,
        [r \in 1..Len(pch) |-> [c \in 1..Len(pch[r]) |-> iprojPoint(pch[r][c], Kq)]])

\* iproj_disps, the pixel in row r and column c (from 1) with depth-map value dv
iproj_dispsPoint(r, c, dv, K) ==
    LET fx == K[1]  fy == K[2]  cx == K[3]  cy == K[4]
        x == Q(c - 1, 1)
        y == Q(r - 1, 1)
        i == One
        X == Div(Sub(x, cx), fx)
        Y == Div(Sub(y, cy), fy)
    IN  <<X, Y, i, dv>>

\* iproj_disps(disps, intrinsics): one depth map, rows y = 0.., columns x = 0..
iproj_disps(disp, Kd) ==
    InOrder(<<disp, Kd>>,
        [r \in 1..Len(disp) |-> [c \in 1..Len(disp[r]) |->
            iproj_dispsPoint(r, c, disp[r][c], Kd)]])

\* the floor of the depth clamp in proj
ProjClamp == Q(1, 10)

\* lines 56-57 (commented out in the source): d = 1, d[|Z| > 0.1] = 1/Z
projInvDepthAbs(Zp) == IF Gt(NumAbs(Zp), ProjClamp) THEN Div(One, Zp) ELSE One

\* line 59: d = 1.0 / Z.clamp(min=0.1)
projInvDepth(Zp) == Div(One, ClampMin(Zp, ProjClamp))

\* lines 60-66 with d computed
projWith(Xs, K, depth, d) ==
    LET X == Xs[1]  Y == Xs[2]
        fx == K[1]  fy == K[2]  cx == K[3]  cy == K[4]
        x == Add(Mul(fx, Mul(d, X)), cx)
        y == Add(Mul(fy, Mul(d, Y)), cy)
    IN  InOrder(<<Xs, K, d>>, <<x, y>> \o (IF depth THEN <<d>> ELSE <<>>))

\* proj, one point <<X, Y, Z, W>>: lines 51-66
projPoint(Xs, K, depth) == projWith(Xs, K, depth, projInvDepth(Xs[3]))

\* proj(X, intrinsics, depth): every point of a grid
proj(Xg, Kp, wantDepth) ==
    InOrder(<<Xg, Kp>>,
        [r \in 1..Len(Xg) |-> [c \in 1..Len(Xg[r]) |-> projPoint(Xg[r][c], Kp, wantDepth)]])

\* line 74: Z = where(Z < 0.5 * MIN_DEPTH, 1, Z)
proj_dispsZ(Zd) == IF Lt(Zd, Mul(Q(1, 2), MIN_DEPTH)) THEN One ELSE Zd

\* lines 75-82 with d computed
proj_dispsWith(Xs, K, return_depth, d) ==
    LET X == Xs[1]  Y == Xs[2]  D == Xs[4]
        fx == K[1]  fy == K[2]  cx == K[3]  cy == K[4]
        x == Add(Mul(fx, Mul(X, d)), cx)
        y == Add(Mul(fy, Mul(Y, d)), cy)
    IN  InOrder(<<Xs, K, d>>, <<x, y>> \o (IF return_depth THEN <<Mul(D, d)>> ELSE <<>>))

\* proj_disps, one point: lines 71-82 (no caller in this file)
proj_dispsPoint(Xs, K, return_depth) ==
    proj_dispsWith(Xs, K, return_depth, Div(One, proj_dispsZ(Xs[3])))

\* the threshold of the validity mask and of the Jacobian's inverse depth
ValidZ == Q(2, 10)

\* a variant of the validity mask that admits the threshold: (Z >= 0.2).float()
ValidOfAtLeast(Xv) == IF Le(ValidZ, Xv[3]) THEN 1 ELSE 0

\* lines 143, 146: (Z > 0.2).float()
ValidOf(Xv) == IF Gt(Xv[3], ValidZ) THEN 1 ELSE 0

\* line 104: Gij = poses[:, jj] * poses[:, ii].inv()
RelativeTransform(Pi, Pj) == SE3Mul(Pj, SE3Inv(Pi))

\* line 107: Gij[..., 3:] = [0, 0, 0, 1]
TonlyReset(Gt0) == <<Gt0[1], Gt0[2], Gt0[3], Zero, Zero, Zero, One>>

\* Gij as a view of the pose buffer entry poses[:, jj]
SharedStorage == "poses_jj"

\* where the data of Gij lives.  The product of line 104 (and of line 175) is a
\* new tensor: "fresh".  "poses_jj" would be storage shared with the pose buffer.
GijStorage == "fresh"

\* the pose buffer after an in-place write of g into the Gij of an edge into frame j
StoreThrough(poses, storage, j, g) ==
    IF storage = "fresh" THEN poses ELSE [poses EXCEPT ![j] = g]

RECURSIVE StoreAll(_, _, _, _)
StoreAll(poses, storage, js, gs) ==
    IF js = <<>> THEN poses
    ELSE StoreAll(StoreThrough(poses, storage, Head(js), Head(gs)), storage, Tail(js), Tail(gs))

\* a variant of Ja with the sign of the rotation block flipped
JaOfPlus(Xa) ==
    << <<Xa[4], Zero, Zero, Zero, Neg(Xa[3]), Xa[2]>>,
       <<Zero, Xa[4], Zero, Xa[3], Zero, Neg(Xa[1])>>,
       <<Zero, Zero, Xa[4], Neg(Xa[2]), Xa[1], Zero>>,
       <<Zero, Zero, Zero, Zero, Zero, Zero>> >>

\* lines 126-131: the 4x6 action Jacobian at the point <<X, Y, Z, H>>
JaOf(Xa) ==
    LET X == Xa[1]  Y == Xa[2]  Z == Xa[3]  H == Xa[4]
        o == Zero
    IN  << <<H, o, o, o, Z, Neg(Y)>>,
           <<o, H, o, Neg(Z), o, X>>,
           <<o, o, H, Y, Neg(X), o>>,
           <<o, o, o, o, o, o>> >>

\* lines 123-124: d = 0, d[|Z| > 0.2] = 1/Z
JacInvDepth(Zc) == IF Gt(NumAbs(Zc), ValidZ) THEN Div(One, Zc) ELSE Zero

\* lines 133-136 with d computed
JpWith(Xp, Kjp, d) ==
    LET X == Xp[1]  Y == Xp[2]
        fx == Kjp[1]  fy == Kjp[2]
        o == Zero
    IN  InOrder(<<Xp, Kjp, d>>,
        << <<Mul(fx, d), o, Neg(Mul(Mul(Mul(fx, X), d), d)), o>>,
           <<o, Mul(fy, d), Neg(Mul(Mul(Mul(fy, Y), d), d)), o>> >>)

\* lines 123-124, 133-136: the 2x4 projection Jacobian
JpOf(Xp, Kjp) == JpWith(Xp, Kjp, JacInvDepth(Xp[3]))

\* Gij.matrix()[..., :, 3:]: the last column, as a 4x1 matrix
LastColumn(M) == [r \in 1..4 |-> <<M[r][4]>>]

\* lines 138-143 with Jp and Jj computed
JacobiansWith(Gr, Xc, Jp, Jj) ==
    InOrder(<<Gr, Xc, Jp, Jj>>,
        [valid |-> ValidOf(Xc),
         Ji |-> NegMat(SE3AdjT(Gr, Jj)),
         Jj |-> Jj,
         Jz |-> MatMul(Jp, LastColumn(SE3Matrix(Gr)))])

\* lines 126-138 with Jp computed
JacobiansAt(Gr, Xc, Jp) == InOrder(<<Jp>>, JacobiansWith(Gr, Xc, Jp, MatMul(Jp, JaOf(Xc))))

\* line 117: the centre pixel X1[..., p//2, p//2, :] of a p x p patch
Centre(Xt) == Xt[(Len(Xt) \div 2) + 1][(Len(Xt) \div 2) + 1]

\* lines 115-143: the Jacobians of one edge, at the centre pixel of the patch
JacobiansOf(Gr, Xt, Kt) == JacobiansAt(Gr, Centre(Xt), JpOf(Centre(Xt), Kt))

\* lines 112-148 for one edge, with Gij and X1 computed
TransformProject(Gij, X1, Kj, depth, valid, jacobian) ==
    InOrder(<<Gij, X1>>,
        [x1 |-> proj(X1, Kj, depth),
         Gij |-> Gij,
         X1 |-> X1,
         valid |-> IF jacobian \/ ~valid THEN <<>>
                   ELSE [r \in 1..Len(X1) |-> [c \in 1..Len(X1[r]) |-> ValidOf(X1[r][c])]],
         jac |-> IF jacobian THEN JacobiansOf(Gij, X1, Kj) ELSE <<>>])

\* lines 109-148 for one edge, with X0 and Gij computed
TransformBy(Gij, X0, Kj, depth, valid, jacobian) ==
    InOrder(<<Gij, X0>>, TransformProject(Gij, ActGrid(Gij, X0), Kj, depth, valid, jacobian))

\* lines 104-107 for one edge
GijOf(Gi, Gj, tonly) ==
    IF tonly THEN TonlyReset(RelativeTransform(Gi, Gj)) ELSE RelativeTransform(Gi, Gj)

\* lines 101-148 for one edge: patch k seen from the frame with pose Gi and
\* intrinsics Ki, reprojected into the frame with pose Gj and intrinsics Kj
TransformEdge(Gi, Gj, patch, Ki, Kj, depth, valid, jacobian, tonly) ==
    TransformBy(GijOf(Gi, Gj, tonly), iproj(patch, Ki), Kj, depth, valid, jacobian)

\* what transform returns, from the edges' results; js are the target frames.
\* Beside the returned tensors (x1, valid, jac) the result records the
\* intermediate tensors Gij and X1 of the call, and the pose buffer it leaves.
TransformReturn(poses, edge, js, valid, jacobian, tonly) ==
    InOrder(<<edge>>,
        [err |-> FALSE,
         x1 |-> [e \in 1..Len(edge) |-> edge[e].x1],
         X1 |-> [e \in 1..Len(edge) |-> edge[e].X1],
         Gij |-> [e \in 1..Len(edge) |-> edge[e].Gij],
         valid |-> IF jacobian THEN [e \in 1..Len(edge) |-> edge[e].jac.valid]
                   ELSE IF valid THEN [e \in 1..Len(edge) |-> edge[e].valid]
                   ELSE <<>>,
         jac |-> IF jacobian
                 THEN [e \in 1..Len(edge) |->
                         [Ji |-> edge[e].jac.Ji, Jj |-> edge[e].jac.Jj, Jz |-> edge[e].jac.Jz]]
                 ELSE <<>>,
         poses |-> IF tonly
                   THEN StoreAll(poses, GijStorage, js, [e \in 1..Len(edge) |-> edge[e].Gij])
                   ELSE poses])

\* transform over E broadcast edges
TransformEdges(poses, patches, intrinsics, ii, jj, kk, depth, valid, jacobian, tonly, E) ==
    LET nf == Cardinality(DOMAIN poses)
        np == Cardinality(DOMAIN patches)
        fi(e) == IndexAt(At(ii, e), nf)
        fj(e) == IndexAt(At(jj, e), nf)
        pk(e) == IndexAt(At(kk, e), np)
    IN  TransformReturn(poses,
            [e \in 1..E |->
                TransformEdge(poses[fi(e)], poses[fj(e)], patches[pk(e)],
                              intrinsics[fi(e)], intrinsics[fj(e)],
                              depth, valid, jacobian, tonly)],
            [e \in 1..E |-> fj(e)], valid, jacobian, tonly)

\* transform(poses, patches, intrinsics, ii, jj, kk, depth, valid, jacobian, tonly).
\* Indexing raises on an index out of range, the arithmetic on lengths that do
\* not broadcast, and the views of lines 131, 136 on len(ii) # E.
transform(poses, patches, intrinsics, ii, jj, kk, depth, valid, jacobian, tonly) ==
    IF \/ ~AllIndexOk(ii, Cardinality(DOMAIN poses))
       \/ ~AllIndexOk(jj, Cardinality(DOMAIN poses))
       \/ ~AllIndexOk(kk, Cardinality(DOMAIN patches))
       \/ ~Broadcasts({Len(ii), Len(jj), Len(kk)})
       \/ (jacobian /\ Len(ii) # MaxLen({Len(ii), Len(jj), Len(kk)}))
    THEN Raise
    ELSE TransformEdges(poses, patches, intrinsics, ii, jj, kk, depth, valid, jacobian, tonly,
                        MaxLen({Len(ii), Len(jj), Len(kk)}))

\* point_cloud(poses, patches, intrinsics, ix): line 152, every patch k with frame ix[k]
point_cloud(poses, patches, intrinsics, ix) ==
    LET nf == Cardinality(DOMAIN poses)
        np == Cardinality(DOMAIN patches)
        f(k) == IndexAt(At(ix, k + 1), nf)
    IN  IF ~AllIndexOk(ix, nf) \/ ~Broadcasts({Len(ix), np})
        THEN Raise
        ELSE [err |-> FALSE,
              pts |-> [k \in 0..(np - 1) |->
                         ActGrid(SE3Inv(poses[f(k)]), iproj(patches[k], intrinsics[f(k)]))],
              poses |-> poses]

\* Tensor.norm(dim=-1) of a 2-vector; the square root is rounded, and the norm
\* carries no first-order part
Norm2(v) == Sqrt(Add(Mul(v[1], v[1]), Mul(v[2], v[2])))

\* (ca - cb).norm(dim=-1): lines 162, 163, for every edge and patch pixel
FlowNorm(ca, cb) ==
    InOrder(<<ca, cb>>,
        [e \in 1..Len(ca) |-> [r \in 1..Len(ca[e]) |-> [c \in 1..Len(ca[e][r]) |->
            Norm2(<<Sub(ca[e][r][c][1], At(cb, e)[r][c][1]),
                    Sub(ca[e][r][c][2], At(cb, e)[r][c][2])>>)]]])

\* a variant of line 165 with the weights exchanged: (1 - beta) * flow1 + beta * flow2
BlendSwapped(beta, flow1, flow2) ==
    [e \in 1..Len(flow1) |-> [r \in 1..Len(flow1[e]) |-> [c \in 1..Len(flow1[e][r]) |->
        Add(Mul(Sub(One, beta), flow1[e][r][c]), Mul(beta, flow2[e][r][c]))]]]

\* line 165: beta * flow1 + (1 - beta) * flow2
Blend(beta, flow1, flow2) ==
    InOrder(<<flow1, flow2>>,
        [e \in 1..Len(flow1) |-> [r \in 1..Len(flow1[e]) |-> [c \in 1..Len(flow1[e][r]) |->
            Add(Mul(beta, flow1[e][r][c]), Mul(Sub(One, beta), flow2[e][r][c]))]]])

\* lines 162-165 with the three reprojections computed.  Beside the returned
\* magnitude the result records flow1, flow2 and coords1.
FlowMagOf(beta, r0, r1, r2) ==
    IF r2.err THEN Raise
    ELSE [err |-> FALSE,
          mag |-> Blend(beta, FlowNorm(r1.x1, r0.x1), FlowNorm(r2.x1, r0.x1)),
          flow1 |-> FlowNorm(r1.x1, r0.x1),
          flow2 |-> FlowNorm(r2.x1, r0.x1),
          coords1 |-> r1.x1,
          poses |-> r2.poses]

\* lines 160-165 with coords0 and coords1 computed
FlowMagTonly(patches, intrinsics, ii, jj, kk, beta, r0, r1) ==
    IF r1.err THEN Raise
    ELSE FlowMagOf(beta, r0, r1,
             transform(r1.poses, patches, intrinsics, ii, jj, kk, FALSE, FALSE, FALSE, TRUE))

\* lines 159-165 with coords0 computed
FlowMagFull(patches, intrinsics, ii, jj, kk, beta, r0) ==
    IF r0.err THEN Raise
    ELSE FlowMagTonly(patches, intrinsics, ii, jj, kk, beta, r0,
             transform(r0.poses, patches, intrinsics, ii, jj, kk, FALSE, FALSE, FALSE, FALSE))

\* flow_mag(poses, patches, intrinsics, ii, jj, kk, beta): lines 158-165
flow_mag(poses, patches, intrinsics, ii, jj, kk, beta) ==
    FlowMagFull(patches, intrinsics, ii, jj, kk, beta,
        transform(poses, patches, intrinsics, ii, ii, kk, FALSE, FALSE, FALSE, FALSE))

\* a variant of line 177 that writes the identity element
PlaceholderIdentity == SE3Identity

\* line 177: the data written over Gij where ii == jj
Placeholder == <<Q(-1, 10), Zero, Zero, Zero, Zero, Zero, One>>

\* lines 175-177 for one edge; same is the entry of ii == jj
DenseGij(Gi, Gj, same) == IF same THEN Placeholder ELSE RelativeTransform(Gi, Gj)

\* line 184 for one pixel
DenseValid(Xa, Xb) == IF Gt(Xb[3], MIN_DEPTH) /\ Gt(Xa[3], MIN_DEPTH) THEN 1 ELSE 0

\* lines 181-187 for one edge, with X0, Gij and X1 computed
DenseProject(Gij, X0, X1, Kj) ==
    InOrder(<<Gij, X0, X1>>,
        [X0 |-> X0, Gij |-> Gij, X1 |-> X1,
         x1 |-> proj(X1, Kj, FALSE),
         valid |-> [r \in 1..Len(X1) |-> [c \in 1..Len(X1[r]) |->
                      DenseValid(X0[r][c], X1[r][c])]]])

\* lines 178-187 for one edge, with X0 and Gij computed
DenseBy(Gij, X0, Kj) == InOrder(<<Gij, X0>>, DenseProject(Gij, X0, ActGrid(Gij, X0), Kj))

\* lines 172-187 for one edge of the dense path
DenseEdge(Gi, Gj, dmap, Ki, Kj, same) ==
    DenseBy(DenseGij(Gi, Gj, same), iproj_disps(dmap, Ki), Kj)

\* what projective_transform returns, from the edges' results; js are the
\* target frames of the edges with ii == jj.  Beside the returned tensors (x1,
\* valid) the result records the intermediate tensors Gij and X1.
DenseReturn(poses, edge, js) ==
    InOrder(<<edge>>,
        [err |-> FALSE,
         x1 |-> [e \in 1..Len(edge) |-> edge[e].x1],
         X1 |-> [e \in 1..Len(edge) |-> edge[e].X1],
         Gij |-> [e \in 1..Len(edge) |-> edge[e].Gij],
         valid |-> [e \in 1..Len(edge) |-> edge[e].valid],
         poses |-> StoreAll(poses, GijStorage, js, [n \in 1..Len(js) |-> Placeholder])])

\* projective_transform over E broadcast edges
DenseEdges(poses, depths, intrinsics, ii, jj, E) ==
    LET nf == Cardinality(DOMAIN poses)
        fi(e) == IndexAt(At(ii, e), nf)
        fj(e) == IndexAt(At(jj, e), nf)
        same(e) == At(ii, e) = At(jj, e)
        hit == SelectSeq([e \in 1..E |-> e], same)
    IN  DenseReturn(poses,
            [e \in 1..E |->
                DenseEdge(poses[fi(e)], poses[fj(e)], depths[fi(e)],
                          intrinsics[fi(e)], intrinsics[fj(e)], same(e))],
            [n \in 1..Len(hit) |-> fj(hit[n])])

\* projective_transform(poses, depths, intrinsics, ii, jj)
projective_transform(poses, depths, intrinsics, ii, jj) ==
    IF \/ ~AllIndexOk(ii, Cardinality(DOMAIN poses))
       \/ ~AllIndexOk(jj, Cardinality(DOMAIN poses))
       \/ ~Broadcasts({Len(ii), Len(jj)})
    THEN Raise
    ELSE DenseEdges(poses, depths, intrinsics, ii, jj, MaxLen({Len(ii), Len(jj)}))

\* lines 193-201 with the result r of projective_transform
InducedFlowOf(r) ==
    IF r.err THEN Raise
    ELSE [err |-> FALSE,
          flow |-> [e \in 1..Len(r.x1) |->
                      [row \in 1..Len(r.x1[e]) |-> [col \in 1..Len(r.x1[e][row]) |->
                          <<Sub(r.x1[e][row][col][1], Q(col - 1, 1)),
                            Sub(r.x1[e][row][col][2], Q(row - 1, 1))>>]]],
          X1 |-> r.X1,
          Gij |-> r.Gij,
          valid |-> r.valid,
          poses |-> r.poses]

\* induced_flow(poses, disps, intrinsics, ii, jj): lines 193-201
induced_flow(poses, disps, intrinsics, ii, jj) ==
    InducedFlowOf(projective_transform(poses, disps, intrinsics, ii, jj))

(* ------------------------- the caller's buffers ------------------------ *)

VARIABLES
    poses,       \* pose buffer: frame -> SE3 data
    patches,     \* patch buffer: patch -> PatchDim x PatchDim pixels <<x, y, d>>
    disps,       \* dense depth maps: frame -> DenseHt x DenseWd values
    intrinsics,  \* frame -> <<fx, fy, cx, cy>>
    updates,     \* in-place updates the optimizer has made
    pc,          \* "idle", or "returned" while the caller holds a call's result
    call,        \* the call that returned: its name and arguments
    out          \* what it returned

vars == <<poses, patches, disps, intrinsics, updates, pc, call, out>>

\* poses the optimizer may write: translations, a half turn, a third of a turn
\* about the diagonal, and a rotation about the optical axis with cos = 7/25
PoseSet ==
    { SE3Identity,
      <<Zero, Zero, One, Zero, Zero, Zero, One>>,
      <<Q(1, 10), Zero, Q(-4, 5), Zero, Zero, Zero, One>>,
      <<Zero, Q(1, 5), Q(-9, 10), Zero, Zero, Zero, One>>,
      <<Zero, Zero, Q(-1, 1), Zero, Zero, Zero, One>>,
      <<Q(1, 2), Zero, Q(-3, 2), Zero, Zero, One, Zero>>,
      <<Q(1, 2), Q(-1, 2), Zero, Q(1, 2), Q(1, 2), Q(1, 2), Q(1, 2)>>,
      <<Zero, Zero, Zero, Zero, Zero, Q(3, 5), Q(4, 5)>> }

\* depth values of a patch and of a depth map
DepthSet == {Q(1, 2), One, Q(2, 1), Q(1, 10)}

\* the frame a patch is anchored in
SourceFrame(k) == k % NumFrames

\* a patch around the anchor pixel <<ax, ay>> with one depth value d
PatchAt(ax, ay, d) ==
    [r \in 1..PatchDim |-> [c \in 1..PatchDim |->
        <<Q(ax + c - 1 - (PatchDim \div 2), 1), Q(ay + r - 1 - (PatchDim \div 2), 1), d>>]]

AnchorX(k) == 2 * k + 1
AnchorY(k) == k + 2

\* a depth map with the value d at every pixel but the first, which holds d0
DepthMap(d0, d) ==
    [r \in 1..DenseHt |-> [c \in 1..DenseWd |-> IF r = 1 /\ c = 1 THEN d0 ELSE d]]

\* fx, fy > 0; two cameras
IntrinsicsOf(f) ==
    IF f % 2 = 0 THEN <<One, One, Zero, Zero>> ELSE <<Q(2, 1), Q(3, 1), One, Q(1, 2)>>

None == [err |-> FALSE]

Init ==
    /\ poses = [f \in Frames |-> SE3Identity]
    /\ patches = [k \in PatchIds |-> PatchAt(AnchorX(k), AnchorY(k), IF k % 2 = 0 THEN One ELSE Q(1, 2))]
    /\ disps = [f \in Frames |-> DepthMap(One, Q(1, 2))]
    /\ intrinsics = [f \in Frames |-> IntrinsicsOf(f)]
    /\ updates = 0
    /\ pc = "idle"
    /\ call = None
    /\ out = None

(* the external optimizer / data loader writes the buffers between calls *)

UpdatePose ==
    /\ pc = "idle" /\ updates < MaxUpdates
    /\ \E f \in Frames, g \in PoseSet :
          /\ g # poses[f]
          /\ poses' = [poses EXCEPT ![f] = g]
    /\ updates' = updates + 1
    /\ UNCHANGED <<patches, disps, intrinsics, pc, call, out>>

UpdateDepth ==
    /\ pc = "idle" /\ updates < MaxUpdates
    /\ \E k \in PatchIds, d \in DepthSet :
          /\ d # patches[k][1][1][3]
          /\ patches' = [patches EXCEPT ![k] = PatchAt(AnchorX(k), AnchorY(k), d)]
    /\ updates' = updates + 1
    /\ UNCHANGED <<poses, disps, intrinsics, pc, call, out>>

UpdateDisps ==
    /\ pc = "idle" /\ updates < MaxUpdates
    /\ \E f \in Frames, d \in DepthSet :
          /\ disps[f] # DepthMap(d, One)
          /\ disps' = [disps EXCEPT ![f] = DepthMap(d, One)]
    /\ updates' = updates + 1
    /\ UNCHANGED <<poses, patches, intrinsics, pc, call, out>>

(* the index arrays a caller passes *)

\* well-formed single edges: patch k seen from its source frame, into frame j
GoodEdges == { <<(<<SourceFrame(k)>>), (<<j>>), (<<k>>)>> : j \in Frames, k \in PatchIds }

\* two edges at once
PairEdges == { <<(<<0, 0>>), (<<0, NumFrames - 1>>), (<<0, 0>>)>> }

\* malformed: negative or out-of-range indices, arrays of differing lengths
BadEdges ==
    { <<(<<-1>>), (<<0>>), (<<0>>)>>,
      <<(<<0>>), (<<-NumFrames>>), (<<0>>)>>,
      <<(<<0>>), (<<0>>), (<<-1>>)>>,
      <<(<<NumFrames>>), (<<0>>), (<<0>>)>>,
      <<(<<0>>), (<<-NumFrames - 1>>), (<<0>>)>>,
      <<(<<0>>), (<<0>>), (<<NumPatches>>)>>,
      <<(<<0>>), (<<0, NumFrames - 1>>), (<<0>>)>>,
      <<(<<0, 0>>), (<<0, 0, 0>>), (<<0, 0>>)>> }

EdgeLists == GoodEdges \cup PairEdges \cup BadEdges

\* depth, valid, jacobian, tonly
FlagSets ==
    { <<FALSE, FALSE, FALSE, FALSE>>,
      <<FALSE, TRUE, FALSE, FALSE>>,
      <<TRUE, TRUE, FALSE, TRUE>>,
      <<FALSE, FALSE, TRUE, FALSE>>,
      <<FALSE, FALSE, TRUE, TRUE>> }

BetaSet == {Zero, One, Q(3, 10)}

\* what the caller holds of a result r: the exception, or the recorded tensors
Held(r) == IF r.err THEN Raise ELSE [x \in (DOMAIN r) \ {"poses"} |-> r[x]]

\* a call returns: the result is held, and the buffers are what the call left
Returned(c, r) ==
    /\ pc = "idle"
    /\ pc' = "returned"
    /\ call' = c
    /\ out' = Held(r)
    /\ poses' = IF r.err THEN poses ELSE r.poses
    /\ UNCHANGED <<patches, disps, intrinsics, updates>>

CallTransform ==
    \E e \in EdgeLists, fl \in FlagSets :
        Returned([op |-> "transform", ii |-> e[1], jj |-> e[2], kk |-> e[3], flags |-> fl],
                 transform(poses, patches, intrinsics, e[1], e[2], e[3],
                           fl[1], fl[2], fl[3], fl[4]))

CallFlowMag ==
    \E e \in EdgeLists, beta \in BetaSet :
        Returned([op |-> "flow_mag", ii |-> e[1], jj |-> e[2], kk |-> e[3], beta |-> beta],
                 flow_mag(poses, patches, intrinsics, e[1], e[2], e[3], beta))

CallPointCloud ==
    \E f \in Frames :
        Returned([op |-> "point_cloud", ix |-> <<f>>],
                 point_cloud(poses, patches, intrinsics, <<f>>))

CallProjectiveTransform ==
    \E e \in EdgeLists :
        Returned([op |-> "projective_transform", ii |-> e[1], jj |-> e[2]],
                 projective_transform(poses, disps, intrinsics, e[1], e[2]))

CallInducedFlow ==
    \E e \in EdgeLists :
        Returned([op |-> "induced_flow", ii |-> e[1], jj |-> e[2]],
                 induced_flow(poses, disps, intrinsics, e[1], e[2]))

\* the caller is done with the result
Return ==
    /\ pc = "returned"
    /\ pc' = "idle"
    /\ call' = None
    /\ out' = None
    /\ UNCHANGED <<poses, patches, disps, intrinsics, updates>>

Next ==
    \/ UpdatePose
    \/ UpdateDepth
    \/ UpdateDisps
    \/ CallTransform
    \/ CallFlowMag
    \/ CallPointCloud
    \/ CallProjectiveTransform
    \/ CallInducedFlow
    \/ Return

Spec == Init /\ [][Next]_vars

(* --------------------- proj on single points --------------------------- *)

\* camera-frame X and Y of the points handed to proj
CoordSet == {Q(-2, 1), Q(-1, 2), Zero, Q(1, 3), Q(3, 1)}

\* their Z: behind the camera, on it, either side of the clamp floor, beyond
ZSet == {Q(-1, 1), Zero, Q(99, 1000), Q(1, 10), Q(101, 1000), Q(1, 5), Q(1, 2), One, Q(2, 1)}

\* proj(X, intrinsics[f], depth=True) on one point
CallProj ==
    /\ pc = "idle"
    /\ pc' = "returned"
    /\ \E X \in CoordSet, Y \in CoordSet, Z \in ZSet, f \in Frames :
          /\ call' = [op |-> "proj", X |-> <<X, Y, Z, One>>, K |-> intrinsics[f]]
          /\ out' = [err |-> FALSE, x1 |-> projPoint(<<X, Y, Z, One>>, intrinsics[f], TRUE)]
    /\ UNCHANGED <<poses, patches, disps, intrinsics, updates>>

NextProj ==
    \/ CallProj
    \/ Return

SpecProj == Init /\ [][NextProj]_vars

(* ------------------ the Jacobians against derivatives ------------------ *)
(* A number with re = 0 is a first-order perturbation; the du part of a     *)
(* result is then its derivative along that perturbation.                   *)

Eps(n) == [re |-> 0, du |-> n, den |-> 1]

UnitTangent(n) == [m \in 1..6 |-> IF m = n THEN 1 ELSE 0]

\* tangent vectors <<tau, phi>>: the six axes and one mixed direction
TangentSet == {UnitTangent(n) : n \in 1..6} \cup {<<1, -1, 2, 1, 2, -1>>}

\* what is perturbed: frame i's pose, the relative transform, the patch depth
Directions ==
    {[wrt |-> w, xi |-> x] : w \in {"i", "j"}, x \in TangentSet}
        \cup {[wrt |-> "z", xi |-> <<d>>] : d \in {1, -2}}

\* retraction of the pose G along xi: Exp(xi) * G
Retract(xi, G) == SE3Mul(SE3ExpSmall([m \in 1..6 |-> Eps(xi[m])]), G)

\* the patch with its depth channel moved by delta
DeeperPatch(patch, delta) ==
    [r \in 1..Len(patch) |-> [c \in 1..Len(patch[r]) |->
        <<patch[r][c][1], patch[r][c][2], Add(patch[r][c][3], Eps(delta))>>]]

\* the reprojected centre pixel of the edge with the perturbation dir applied
PerturbedPixel(Gi, Gj, patch, Ki, Kj, dir) ==
    Centre(TransformBy(
               IF dir.wrt = "j" THEN Retract(dir.xi, GijOf(Gi, Gj, FALSE))
               ELSE IF dir.wrt = "i" THEN GijOf(Retract(dir.xi, Gi), Gj, FALSE)
               ELSE GijOf(Gi, Gj, FALSE),
               iproj(IF dir.wrt = "z" THEN DeeperPatch(patch, dir.xi[1]) ELSE patch, Ki),
               Kj, FALSE, FALSE, FALSE).x1)

\* the result of transform(jacobian=True) on one edge, with the first-order
\* change of the reprojected centre pixel px
JacobianProbe(r, px) ==
    [err |-> FALSE, x1 |-> r.x1, X1 |-> r.X1, Gij |-> r.Gij, valid |-> r.valid, jac |-> r.jac,
     moved |-> <<DuOf(px[1]), DuOf(px[2])>>]

\* transform(..., jacobian=True) on one edge, and the same edge perturbed
CallJacobian ==
    /\ pc = "idle"
    /\ pc' = "returned"
    /\ \E e \in GoodEdges, dir \in Directions :
          /\ call' = [op |-> "jacobian", ii |-> e[1], jj |-> e[2], kk |-> e[3], dir |-> dir]
          /\ out' = JacobianProbe(
                        transform(poses, patches, intrinsics, e[1], e[2], e[3],
                                  FALSE, FALSE, TRUE, FALSE),
                        PerturbedPixel(poses[e[1][1]], poses[e[2][1]], patches[e[3][1]],
                                       intrinsics[e[1][1]], intrinsics[e[2][1]], dir))
    /\ UNCHANGED <<poses, patches, disps, intrinsics, updates>>

NextJac ==
    \/ UpdatePose
    \/ UpdateDepth
    \/ CallJacobian
    \/ Return

SpecJac == Init /\ [][NextJac]_vars

(* ------------------------------ properties ----------------------------- *)

\* the caller holds the result of a call of op
IsCall(op) == pc = "returned" /\ call.op = op

Succeeded(op) == IsCall(op) /\ ~out.err

\* the frames and the patch of edge e of the call held
FrameI(e) == IndexAt(At(call.ii, e), NumFrames)
FrameJ(e) == IndexAt(At(call.jj, e), NumFrames)
PatchK(e) == IndexAt(At(call.kk, e), NumPatches)

Rows(grid) == 1..Len(grid)
Cols(grid) == 1..Len(grid[1])

\* the index arrays are of one length and every index names a buffer entry
InRange(ix, n) == \A e \in 1..Len(ix) : 0 <= ix[e] /\ ix[e] < n

WellFormedPatchCall ==
    /\ Len(call.ii) = Len(call.jj) /\ Len(call.jj) = Len(call.kk)
    /\ InRange(call.ii, NumFrames) /\ InRange(call.jj, NumFrames)
    /\ InRange(call.kk, NumPatches)

WellFormedDenseCall ==
    /\ Len(call.ii) = Len(call.jj)
    /\ InRange(call.ii, NumFrames) /\ InRange(call.jj, NumFrames)

ZeroOne(b) == IF b THEN 1 ELSE 0

\* C1: transform with valid=True or jacobian=True returns validity 1 exactly
\* when the Z of the transformed point Gij*X0 is strictly greater than 0.2 and
\* validity 0 otherwise; a well-formed call does not raise, and every point,
\* valid or not, has a reprojected pixel.
TransformValidity ==
    (IsCall("transform") /\ (call.flags[2] \/ call.flags[3])) =>
        /\ WellFormedPatchCall => ~out.err
        /\ ~out.err =>
             \A e \in 1..Len(out.x1) :
                /\ out.X1[e] = ActGrid(GijOf(poses[FrameI(e)], poses[FrameJ(e)], call.flags[4]),
                                       iproj(patches[PatchK(e)], intrinsics[FrameI(e)]))
                /\ \A r \in Rows(out.X1[e]), c \in Cols(out.X1[e]) :
                      Len(out.x1[e][r][c]) = IF call.flags[1] THEN 3 ELSE 2
                /\ IF call.flags[3]
                   THEN out.valid[e] = ZeroOne(Gt(Centre(out.X1[e])[3], Q(2, 10)))
                   ELSE \A r \in Rows(out.X1[e]), c \in Cols(out.X1[e]) :
                           out.valid[e][r][c] = ZeroOne(Gt(out.X1[e][r][c][3], Q(2, 10)))

\* a point exactly at Z = 0.2 came back invalid, with its pixel
WitnessValidityAtThreshold ==
    /\ Succeeded("transform") /\ call.flags[2] /\ ~call.flags[3]
    /\ \E e \in 1..Len(out.x1) : \E r \in Rows(out.X1[e]), c \in Cols(out.X1[e]) :
          /\ out.X1[e][r][c][3] = Q(2, 10)
          /\ out.valid[e][r][c] = 0
          /\ Len(out.x1[e][r][c]) >= 2

OffsetX(p, K) == NumAbs(Sub(p[1], K[3]))
OffsetY(p, K) == NumAbs(Sub(p[2], K[4]))

\* the pixel and inverse depth of <<X, Y, Z>> with d = 1 / max(Z, 0.1)
ClampedPixel(X, Y, Z, K) ==
    LET d == IF Gt(Z, Q(1, 10)) THEN Div(One, Z) ELSE Q(10, 1)
    IN  <<Add(Mul(Mul(K[1], d), X), K[3]), Add(Mul(Mul(K[2], d), Y), K[4]), d>>

\* C2: proj returns (fx*d*X + cx, fy*d*Y + cy) with d = 1/max(Z, 0.1); a point
\* with Z <= 0.1 projects as the same X, Y at Z = 0.1; the offset from the
\* principal point is at most 10*fx*|X| and 10*fy*|Y|; and for Z >= 0.1 the
\* offset does not grow with Z.
ProjClampedAndMonotone ==
    IsCall("proj") =>
        LET X == call.X[1]
            Y == call.X[2]
            Z == call.X[3]
            K == call.K
        IN  /\ out.x1 = ClampedPixel(X, Y, Z, K)
            /\ Le(Z, Q(1, 10)) => out.x1 = projPoint(<<X, Y, Q(1, 10), One>>, K, TRUE)
            /\ Le(OffsetX(out.x1, K), Mul(Mul(Q(10, 1), K[1]), NumAbs(X)))
            /\ Le(OffsetY(out.x1, K), Mul(Mul(Q(10, 1), K[2]), NumAbs(Y)))
            /\ \A Z2 \in ZSet :
                  (Le(Q(1, 10), Z) /\ Le(Z, Z2)) =>
                      /\ Le(OffsetX(projPoint(<<X, Y, Z2, One>>, K, TRUE), K), OffsetX(out.x1, K))
                      /\ Le(OffsetY(projPoint(<<X, Y, Z2, One>>, K, TRUE), K), OffsetY(out.x1, K))

\* a point just below the clamp floor, off the optical axis, was projected
WitnessProjBelowFloor ==
    /\ IsCall("proj")
    /\ call.X[3] = Q(99, 1000) /\ call.X[1] = Q(3, 1)
    /\ out.x1[3] = Q(10, 1)

\* C3: on an edge with ii = jj the relative transform is the identity, the
\* transformed Z is 1 and the reprojected pixel is the patch's own pixel, for
\* any pose, intrinsics and patch depth; iproj followed by proj with the same
\* intrinsics returns the original pixel, the backprojected Z being 1.
IdentityEdge ==
    /\ \A k \in PatchIds, f \in Frames :
          \A r \in Rows(patches[k]), c \in Cols(patches[k]) :
             /\ iprojPoint(patches[k][r][c], intrinsics[f])[3] = One
             /\ projPoint(iprojPoint(patches[k][r][c], intrinsics[f]), intrinsics[f], FALSE)
                    = <<patches[k][r][c][1], patches[k][r][c][2]>>
    /\ Succeeded("transform") =>
          \A e \in 1..Len(out.x1) :
             FrameI(e) = FrameJ(e) =>
                /\ out.Gij[e] = SE3Identity
                /\ \A r \in Rows(out.x1[e]), c \in Cols(out.x1[e]) :
                      /\ out.X1[e][r][c][3] = One
                      /\ out.x1[e][r][c][1] = patches[PatchK(e)][r][c][1]
                      /\ out.x1[e][r][c][2] = patches[PatchK(e)][r][c][2]

\* a same-frame edge of a rotated frame, on a patch of depth other than 1
WitnessIdentityEdge ==
    /\ Succeeded("transform")
    /\ \E e \in 1..Len(out.x1) :
          /\ FrameI(e) = FrameJ(e)
          /\ poses[FrameI(e)][7] # One
          /\ patches[PatchK(e)][1][1][3] # One
          /\ out.Gij[e] = SE3Identity

\* the direction of the probe held, as a vector of numbers
ProbeDirection == [m \in 1..Len(call.dir.xi) |-> Q(call.dir.xi[m], 1)]

\* the Jacobian the probe held is measured against
ProbeJacobian ==
    IF call.dir.wrt = "i" THEN out.jac[1].Ji
    ELSE IF call.dir.wrt = "j" THEN out.jac[1].Jj
    ELSE out.jac[1].Jz

\* C4: on an edge whose transformed patch centre has Z > 0.5, the first-order
\* change of the reprojected centre pixel is Jj*eps under a perturbation eps of
\* the relative transform, Ji*eps under a perturbation of frame i's pose, and
\* Jz*delta under a change delta of the patch depth, with Ji = -adjT(Gij, Jj).
JacobianConsistent ==
    (IsCall("jacobian") /\ Gt(Centre(out.X1[1])[3], Q(1, 2))) =>
        /\ out.moved = MatVec(ProbeJacobian, ProbeDirection)
        /\ out.jac[1].Ji = NegMat(MatMul(out.jac[1].Jj, SE3Adj(out.Gij[1])))

\* frame i's pose was perturbed under a rotated relative transform, and the
\* pixel moved
WitnessJacobianFrameI ==
    /\ IsCall("jacobian") /\ Gt(Centre(out.X1[1])[3], Q(1, 2))
    /\ call.dir.wrt = "i"
    /\ out.Gij[1][7] # One
    /\ out.moved # <<Zero, Zero>>

IsDenseCall == IsCall("projective_transform") \/ IsCall("induced_flow")

\* the pixel the dense path returned for edge e, row r, column c
DensePixel(e, r, c) ==
    IF call.op = "projective_transform" THEN out.x1[e][r][c]
    ELSE <<Add(out.flow[e][r][c][1], Q(c - 1, 1)), Add(out.flow[e][r][c][2], Q(r - 1, 1))>>

\* C5: in the dense path a transformed point with Z < 0.1 has its Z replaced
\* by 1 before the inversion, so its pixel is (fx*X + cx, fy*Y + cy).
DenseSubstitutesLowZ ==
    (IsDenseCall /\ ~out.err) =>
        \A e \in 1..Len(out.X1) : \A r \in Rows(out.X1[e]), c \in Cols(out.X1[e]) :
            Lt(out.X1[e][r][c][3], Q(1, 10)) =>
                DensePixel(e, r, c)
                    = <<Add(Mul(intrinsics[FrameJ(e)][1], out.X1[e][r][c][1]),
                            intrinsics[FrameJ(e)][3]),
                        Add(Mul(intrinsics[FrameJ(e)][2], out.X1[e][r][c][2]),
                            intrinsics[FrameJ(e)][4])>>

\* C6: projective_transform flags a pixel invalid exactly when its depth-map
\* value or its transformed Z is at or below MIN_DEPTH = 0.2.
DenseGateOnDepthMap ==
    (IsDenseCall /\ ~out.err) =>
        \A e \in 1..Len(out.X1) : \A r \in Rows(out.X1[e]), c \in Cols(out.X1[e]) :
            out.valid[e][r][c]
                = ZeroOne(Gt(disps[FrameI(e)][r][c], Q(2, 10)) /\ Gt(out.X1[e][r][c][3], Q(2, 10)))

\* the norm of the displacement of pixel (r, c) of edge e from ca to cb
FlowAt(ca, cb, e, r, c) ==
    Norm2(<<Sub(ca[e][r][c][1], At(cb, e)[r][c][1]), Sub(ca[e][r][c][2], At(cb, e)[r][c][2])>>)

\* the magnitude held is the blend of the displacements from c0 to c1 and c2
BlendOf(beta, c0, c1, c2) ==
    InOrder(<<c0, c1, c2>>,
        /\ out.coords1 = c1
        /\ \A e \in 1..Len(c1) : \A r \in Rows(c1[e]), c \in Cols(c1[e]) :
              /\ out.mag[e][r][c] = Add(Mul(beta, FlowAt(c1, c0, e, r, c)),
                                        Mul(Sub(One, beta), FlowAt(c2, c0, e, r, c)))
              /\ beta = One => out.mag[e][r][c] = FlowAt(c1, c0, e, r, c)
              /\ beta = Zero => out.mag[e][r][c] = FlowAt(c2, c0, e, r, c))

\* C7: flow_mag returns beta*|full-motion displacement| + (1-beta)*
\* |translation-only displacement|, both measured from transform(ii, ii, kk);
\* with beta = 1 it is the full-motion norm, with beta = 0 the translation-only
\* norm; and the full-motion reprojection it used is the one a full-motion call
\* on the pose buffer gives after the translation-only call was made.
FlowMagBlend ==
    Succeeded("flow_mag") =>
        BlendOf(call.beta,
            transform(poses, patches, intrinsics, call.ii, call.ii, call.kk,
                      FALSE, FALSE, FALSE, FALSE).x1,
            transform(poses, patches, intrinsics, call.ii, call.jj, call.kk,
                      FALSE, FALSE, FALSE, FALSE).x1,
            transform(poses, patches, intrinsics, call.ii, call.jj, call.kk,
                      FALSE, FALSE, FALSE, TRUE).x1)

\* beta = 1 on an edge whose two displacements differ
WitnessFlowMagFullOnly ==
    /\ Succeeded("flow_mag") /\ call.beta = One
    /\ out.flow1 # out.flow2
    /\ out.mag = out.flow1

\* the call held has index arrays of differing lengths or an index that names
\* no buffer entry
Malformed ==
    \/ (IsCall("transform") \/ IsCall("flow_mag")) /\ ~WellFormedPatchCall
    \/ IsDenseCall /\ ~WellFormedDenseCall

\* C8: transform, flow_mag and projective_transform reject index arrays of
\* differing lengths and indices outside the buffers, negative ones included,
\* with an error; such a call never produces pixels.
RejectsMalformed == Malformed => out.err

\* the result of the call c on the buffers given
Repeat(c, po, pa, di, kin) ==
    IF c.op = "transform"
    THEN transform(po, pa, kin, c.ii, c.jj, c.kk,
                   c.flags[1], c.flags[2], c.flags[3], c.flags[4])
    ELSE IF c.op = "flow_mag" THEN flow_mag(po, pa, kin, c.ii, c.jj, c.kk, c.beta)
    ELSE IF c.op = "point_cloud" THEN point_cloud(po, pa, kin, c.ix)
    ELSE IF c.op = "projective_transform" THEN projective_transform(po, di, kin, c.ii, c.jj)
    ELSE induced_flow(po, di, kin, c.ii, c.jj)

\* the result held is the result r
HoldsResult(r) == InOrder(<<r>>, out = Held(r))

DensePlaceholder ==
    (IsDenseCall /\ ~out.err) =>
        \A e \in 1..Len(out.Gij) :
            IF At(call.ii, e) = At(call.jj, e)
            THEN /\ out.Gij[e] = <<Q(-1, 10), Zero, Zero, Zero, Zero, Zero, One>>
                 /\ IsCall("induced_flow") =>
                       \A r \in Rows(out.X1[e]), c \in Cols(out.X1[e]) :
                          /\ out.flow[e][r][c]
                                = <<Mul(Mul(Q(-1, 10), intrinsics[FrameI(e)][1]),
                                        disps[FrameI(e)][r][c]), Zero>>
                          /\ out.X1[e][r][c][3] = One
                          /\ out.valid[e][r][c] = 1
            ELSE out.Gij[e] = RelativeTransform(poses[FrameI(e)], poses[FrameJ(e)])

\* induced_flow on a same-frame edge of a moved frame: a flow that is not zero
WitnessSameFrameFlow ==
    /\ Succeeded("induced_flow")
    /\ \E e \in 1..Len(out.Gij) :
          /\ At(call.ii, e) = At(call.jj, e)
          /\ poses[FrameI(e)] # SE3Identity
          /\ out.flow[e][1][1][1] # Zero
          /\ out.valid[e][1][1] = 1

====
